---------------------------- MODULE Spec2Model ----------------------------
(***************************************************************************)
(* Model of the node rotation helpers of castai-k8s-version-upgrader:      *)
(*   src/src/cast_api_utils.py  rotate_node, add_node, wait_for_node_ready, *)
(*                              find_node_template_details, ...             *)
(*   src/src/node_utils.py      drain_node_with_timeout, cordon_node,       *)
(*                              label_node, uncordon_node,                  *)
(*                              wait_for_new_nodes                          *)
(* One thread of control: pc is the position of that thread, fn the         *)
(* function it is in (or has last returned from).  Time is counted in       *)
(* seconds from the start_time of the wait in progress.                     *)
(***************************************************************************)
EXTENDS Integers, Sequences, FiniteSets, TLC

(***************************************************************************)
(* Bounds of the model                                                      *)
(***************************************************************************)
MaxTimeoutMinutes == 2      \* timeout_minutes of a direct wait_for_node_ready call
MaxRetriesParam == 3        \* max_retries of a direct wait_for_node_ready call
MaxPollTime == 5            \* seconds one status poll may take
MaxCycles == 1              \* TOTAL_WAIT_CYCLES values set in the environment
MaxMinReady == 2             \* MIN_READY_NODES values
MaxPods == 2                \* pods listed on a node
MaxWorkloads == 2           \* entries of CRITICAL_WORKLOADS

Intervals == {0, 10, 30}                 \* retry_interval_seconds of a direct call
PollTimes == {0, MaxPollTime}            \* time one status poll takes
Never == 0 - 1                           \* the node never becomes ready
ReadyTimes == {0, 15, 55, Never}         \* when the node turns ready (direct call)
RotateReadyTimes == {20, 400, Never}     \* when the node turns ready (rotate_node)

(***************************************************************************)
(* Program constants                                                        *)
(***************************************************************************)
RotateMaxRetries == 3          \* rotate_node: max_retries = 3
RotateTimeoutMinutes == 7      \* rotate_node: timeout_minutes=7
RotateRetryInterval == 30      \* rotate_node: retry_interval_seconds=30
RotatePollMaxRetries == 20     \* rotate_node: max_retries=20
SecondsPerMinute == 60         \* wait_for_node_ready: timeout_minutes * 60
DefaultWaitCycles == 5         \* wait_for_new_nodes: os.getenv("TOTAL_WAIT_CYCLES", 5)

(***************************************************************************)
(* Values                                                                   *)
(***************************************************************************)
None == "None"                           \* Python None where a string is expected
Truthy(s) == s \notin {None, ""}         \* `if s:` for a str | None
NoneOpt == <<>>                          \* Python None where a dict or list is expected
Some(v) == <<v>>

ProvisionerIdKey == "provisioner.cast.ai/node-id"
TemplateKey == "scheduling.cast.ai/node-template"
InstanceTypeKey == "node.kubernetes.io/instance-type"
DrainStatusKey == "drain-status"
EnvKey == "env"
NodeLabelKeys == {ProvisionerIdKey, TemplateKey, InstanceTypeKey, DrainStatusKey}
TemplateLabelKeys == {TemplateKey, EnvKey}

\* A label set: key -> value, None for a key that is not in the set.
NodeLabels(pid, tmpl, inst) ==
  [k \in NodeLabelKeys |->
     IF k = ProvisionerIdKey THEN pid
     ELSE IF k = TemplateKey THEN tmpl
     ELSE IF k = InstanceTypeKey THEN inst
     ELSE None]

\* The label sets the original node may carry when the program starts.
InitNodeLabels ==
  { NodeLabels("pid", "t1", "m5.large"),
    NodeLabels("pid", "t2", "m5.large"),
    NodeLabels("pid", None, "m5.large"),
    NodeLabels("pid", "t1", None),
    NodeLabels("pid", "t1", "") }

CustomLabels(tmpl, env) ==
  [k \in TemplateLabelKeys |-> IF k = TemplateKey THEN tmpl ELSE env]

Template(n, c, l, t) ==
  [name |-> n, configurationId |-> c, customLabels |-> l, customTaints |-> t]

EmptyDict == Template(None, None, CustomLabels(None, None), <<>>)

T1c1 == Template("t1", "c1", CustomLabels(None, None), <<>>)
T1c2 == Template("t1", "c2", CustomLabels("stale", "prod"), <<"dedicated">>)
T1noCfg == Template("t1", None, CustomLabels(None, "prod"), <<>>)
T3c3 == Template("t3", "c3", CustomLabels(None, None), <<>>)

\* node_templates.get('items', []) of the catalogs the service may return.
Catalogs == { <<>>, <<T1c1>>, <<T1c2, T1c1>>, <<T3c3, T1c1>>, <<T1noCfg>>, <<T3c3>> }


NodeNames == {"n1", "n2"}                \* the other nodes of the cluster
PodNames == {"p1", "p2"}                 \* the pods that may run on the node
NewNodeId(k) == ToString(k)              \* the nodeId of the k-th created node

Min(a, b) == IF a < b THEN a ELSE b

(***************************************************************************)
(* Pure functions                                                           *)
(***************************************************************************)
\* get_node_label_value: read_ok is FALSE when v1.read_node raises ApiException.
get_node_label_value(read_ok, n, label_key) ==
  IF read_ok
    THEN IF n.labels[label_key] # None THEN n.labels[label_key] ELSE None
    ELSE None

\* fetch_node_templates: the items of response.json(), {} on a RequestException.
fetch_node_templates(fetch_ok, catalog) == IF fetch_ok THEN catalog ELSE <<>>

\* The template names a caller may look up.
TemplateNames == {"t1", "t2", "t3"}

\* find_node_template_details: first item whose template name matches, else {}.
RECURSIVE FindFrom(_, _, _)
FindFrom(items, template_name, i) ==
  IF i > Len(items) THEN EmptyDict
  ELSE IF items[i].name = template_name THEN items[i]
  ELSE FindFrom(items, template_name, i + 1)

\* The lookup that keeps on after a match: the last item of that name, else {}.
find_last_node_template_details(node_templates, template_name) ==
  LET matching == {i \in 1..Len(node_templates) :
                     node_templates[i].name = template_name}
  IN IF matching = {} THEN EmptyDict
     ELSE node_templates[CHOOSE i \in matching : \A j \in matching : j <= i]

find_node_template_details(node_templates, template_name) ==
  FindFrom(node_templates, template_name, 1)

\* add_node: the JSON payload of the POST; None labels / taints are left out.
AddNodePayload(instance_type, configuration_id, labels, taints) ==
  [instanceType |-> instance_type,
   configurationId |-> configuration_id,
   kubernetesLabels |-> labels,
   kubernetesTaints |-> taints]

\* patch_node bodies of cordon_node, uncordon_node and label_node; patch_ok is
\* FALSE when v1.patch_node raises ApiException, which each of them swallows.
cordon_node(n, patch_ok) ==
  IF patch_ok THEN [n EXCEPT !.unschedulable = TRUE] ELSE n

uncordon_node(n, patch_ok) ==
  IF patch_ok THEN [n EXCEPT !.unschedulable = FALSE] ELSE n

label_node(n, label_key, label_value, patch_ok) ==
  IF patch_ok THEN [n EXCEPT !.labels[label_key] = label_value] ELSE n

(***************************************************************************)
(* State                                                                    *)
(***************************************************************************)
VARIABLES
  pc,           \* position of the thread of control
  fn,           \* function in progress, or the last one that returned
  ret,          \* [kind, val]: what the last call returned or raised
  node,         \* the original node in the cluster: unschedulable flag, labels
  nodeAtStart,  \* node as it was when the call in progress was entered
  patches,      \* patch_node calls issued by the call in progress
  rot,          \* locals of rotate_node
  requests,     \* payloads of the POSTs of add_node in this rotation
  provisioned,  \* nodeIds the provisioning service created in this rotation
  catalog,      \* the template catalog of the service during this rotation
  drift,        \* labels others have set on the node during this rotation
  w,            \* parameters and locals of wait_for_node_ready
  clock,        \* time.time() - start_time
  readyAt,      \* the time from which the service reports phase "ready"
  pollCount,    \* status polls issued by this wait
  sawReady,     \* a poll of this wait was answered with phase "ready"
  hadError,     \* a poll of this wait raised RequestException
  lastPollAt,   \* the time the last poll of this wait was issued
  pods,         \* pods scheduled on the original node
  dr,           \* locals of drain_node_with_timeout
  wn,           \* parameters and locals of wait_for_new_nodes
  live,         \* the last v1.list_node(): name -> Ready condition status
  args          \* the arguments of a call of one of the helper functions

vars == <<pc, fn, ret, node, nodeAtStart, patches, rot, requests, provisioned,
          catalog, drift, w, clock, readyAt, pollCount, sawReady, hadError, lastPollAt,
          pods, dr, wn, live, args>>

nodeVars == <<node, patches>>
rotVars == <<rot, requests, provisioned, catalog, drift>>
waitVars == <<w, clock, readyAt, pollCount, sawReady, hadError, lastPollAt>>
drainVars == <<pods, dr>>
wnnVars == <<wn, live>>
callVars == <<args>>

Ret(kind, val) == [kind |-> kind, val |-> val]

RotIdle ==
  [provisioner_node_id |-> None, scheduling_node_template |-> None,
   instance_type |-> None, node_templates |-> <<>>,
   node_configuration_id |-> None,
   node_template_labels |-> NoneOpt, node_template_tolerations |-> NoneOpt,
   retry_count |-> 0, new_node_id |-> None]

WaitIdle ==
  [timeout_minutes |-> 0, retry_interval_seconds |-> 0, max_retries |-> 0,
   end_time |-> 0, retries |-> 0, node_id |-> None]

DrainIdle == [pods |-> {}, atTimeout |-> {}, outcome |-> "none", trail |-> <<>>]

WnnIdle == [original_nodes |-> {}, total_wait_cycles |-> 0, min_ready |-> 0]

NoListing == [n \in {} |-> {}]

NoArgs == [a \in {} |-> {}]

\* No label of the node has been written by others.
NoDrift == [k \in NodeLabelKeys |-> None]

ResetRot ==
  /\ rot' = RotIdle /\ requests' = <<>> /\ provisioned' = {}
  /\ catalog' = <<>> /\ drift' = NoDrift

ResetWait ==
  /\ w' = WaitIdle /\ clock' = 0 /\ readyAt' = Never /\ pollCount' = 0
  /\ sawReady' = FALSE /\ hadError' = FALSE /\ lastPollAt' = 0

ResetDrain == pods' = {} /\ dr' = DrainIdle

ResetWnn == wn' = WnnIdle /\ live' = NoListing

ResetArgs == args' = NoArgs

Init ==
  /\ pc = "idle" /\ fn = "none" /\ ret = Ret("init", None)
  /\ node \in [unschedulable : {FALSE}, labels : InitNodeLabels]
  /\ nodeAtStart = node
  /\ patches = 0
  /\ rot = RotIdle /\ requests = <<>> /\ provisioned = {} /\ catalog = <<>>
  /\ drift = NoDrift
  /\ w = WaitIdle /\ clock = 0 /\ readyAt = Never /\ pollCount = 0
  /\ sawReady = FALSE /\ hadError = FALSE /\ lastPollAt = 0
  /\ pods = {} /\ dr = DrainIdle
  /\ wn = WnnIdle /\ live = NoListing
  /\ args = NoArgs

\* The caller enters function f at position p; no call is in progress.
Enter(f, p) ==
  /\ pc = "idle"
  /\ pc' = p /\ fn' = f /\ ret' = Ret("init", None)
  /\ nodeAtStart' = node /\ patches' = 0

\* The caller has the result of the call; the locals of the call are gone.
Return ==
  /\ pc = "done"
  /\ pc' = "idle" /\ fn' = "none" /\ ret' = Ret("init", None)
  /\ nodeAtStart' = node /\ patches' = 0
  /\ ResetRot /\ ResetWait /\ ResetDrain /\ ResetWnn /\ ResetArgs
  /\ UNCHANGED node

(***************************************************************************)
(* wait_for_node_ready (cast_api_utils.py)                                  *)
(***************************************************************************)
\* The timeout taken for hours: end_time = start_time + timeout_minutes * 60 * 60.
WaitLocalsHours(node_id, timeout_minutes, retry_interval_seconds, max_retries) ==
  [timeout_minutes |-> timeout_minutes,
   retry_interval_seconds |-> retry_interval_seconds,
   max_retries |-> max_retries,
   end_time |-> timeout_minutes * SecondsPerMinute * SecondsPerMinute,
   retries |-> 0,
   node_id |-> node_id]

\* Locals at entry: end_time = start_time + timeout_minutes * 60, retries = 0.
WaitLocals(node_id, timeout_minutes, retry_interval_seconds, max_retries) ==
  [timeout_minutes |-> timeout_minutes,
   retry_interval_seconds |-> retry_interval_seconds,
   max_retries |-> max_retries,
   end_time |-> timeout_minutes * SecondsPerMinute,
   retries |-> 0,
   node_id |-> node_id]

StartWait(node_id, timeout_minutes, retry_interval_seconds, max_retries, ready_at) ==
  /\ w' = WaitLocals(node_id, timeout_minutes, retry_interval_seconds, max_retries)
  /\ clock' = 0 /\ readyAt' = ready_at /\ pollCount' = 0
  /\ sawReady' = FALSE /\ hadError' = FALSE /\ lastPollAt' = 0

\* What a status poll answered at time t can be: the phase the service reports,
\* no phase at all, or a RequestException.
PollOutcomes(t) ==
  IF readyAt # Never /\ readyAt <= t
    THEN {"ready", "error"}
    ELSE {"pending", "missing", "error"}

\* The bool wait_for_node_ready returns goes to rotate_node's is_node_ready
\* or to the caller.
WaitExit(r) ==
  IF fn = "rotate_node"
    THEN /\ pc' = "rot_after_wait"
         /\ ret' = Ret("bool", r)
    ELSE /\ pc' = "done"
         /\ ret' = Ret("bool", r)

\* The direct call with parameters of the caller's choice.
WaitCall ==
  /\ Enter("wait_for_node_ready", "wait_loop")
  /\ \E tm \in 0..MaxTimeoutMinutes, iv \in Intervals,
        mx \in 0..MaxRetriesParam, ra \in ReadyTimes :
       StartWait(NewNodeId(1), tm, iv, mx, ra)
  /\ UNCHANGED <<node, rotVars, drainVars, wnnVars, callVars>>

\* The return after the loop written as return True.
WaitTimedOutReturnsTrue ==
  /\ pc = "wait_loop"
  /\ ~(clock < w.end_time)
  /\ WaitExit(TRUE)
  /\ UNCHANGED <<fn, nodeAtStart, nodeVars, rotVars, waitVars, drainVars, wnnVars, callVars>>

\* while time.time() < end_time: fails, the function logs and returns False.
WaitTimedOut ==
  /\ pc = "wait_loop"
  /\ ~(clock < w.end_time)
  /\ WaitExit(FALSE)
  /\ UNCHANGED <<fn, nodeAtStart, nodeVars, rotVars, waitVars, drainVars, wnnVars, callVars>>

\* if retries >= max_retries: return False
WaitPollExhausted ==
  /\ pc = "wait_loop"
  /\ clock < w.end_time
  /\ w.retries >= w.max_retries
  /\ WaitExit(FALSE)
  /\ UNCHANGED <<fn, nodeAtStart, nodeVars, rotVars, waitVars, drainVars, wnnVars, callVars>>

\* An iteration whose RequestException is not caught: the function raises.
WaitPollWithErrorRaises(outcome, d) ==
  /\ pc = "wait_loop"
  /\ clock < w.end_time
  /\ w.retries < w.max_retries
  /\ outcome \in PollOutcomes(clock + d)
  /\ pollCount' = pollCount + 1
  /\ lastPollAt' = clock
  /\ hadError' = (hadError \/ outcome = "error")
  /\ CASE outcome = "ready" ->
            /\ sawReady' = TRUE
            /\ clock' = clock + d
            /\ w' = w
            /\ WaitExit(TRUE)
       [] outcome = "error" ->
            /\ sawReady' = sawReady
            /\ clock' = clock + d
            /\ w' = w
            /\ pc' = "done"
            /\ ret' = Ret("raise", None)
       [] OTHER ->
            /\ sawReady' = sawReady
            /\ w' = [w EXCEPT !.retries = w.retries + 1]
            /\ clock' = clock + d + w.retry_interval_seconds
            /\ pc' = "wait_loop"
            /\ ret' = ret
  /\ UNCHANGED <<fn, nodeAtStart, nodeVars, rotVars, readyAt, drainVars, wnnVars, callVars>>

\* One iteration: the GET, which takes d seconds, and what follows from its outcome.
WaitPollWith(outcome, d) ==
  /\ pc = "wait_loop"
  /\ clock < w.end_time
  /\ w.retries < w.max_retries
  /\ outcome \in PollOutcomes(clock + d)
  /\ pollCount' = pollCount + 1
  /\ lastPollAt' = clock
  /\ hadError' = (hadError \/ outcome = "error")
  /\ IF outcome = "ready"
       THEN /\ sawReady' = TRUE
            /\ clock' = clock + d
            /\ w' = w
            /\ WaitExit(TRUE)
       ELSE /\ sawReady' = sawReady
            /\ w' = [w EXCEPT !.retries = w.retries + 1]
            /\ clock' = clock + d + w.retry_interval_seconds
            /\ pc' = "wait_loop"
            /\ ret' = ret
  /\ UNCHANGED <<fn, nodeAtStart, nodeVars, rotVars, readyAt, drainVars, wnnVars, callVars>>

WaitPoll ==
  \E outcome \in {"ready", "pending", "missing", "error"}, d \in PollTimes :
    WaitPollWith(outcome, d)

(***************************************************************************)
(* rotate_node (cast_api_utils.py)                                          *)
(***************************************************************************)
\* The resolution without line 203: the template's labels are passed on as
\* they are.
ResolveTemplateKeepsLabels(scheduling_node_template, node_templates) ==
  LET template_details ==
        find_node_template_details(node_templates, scheduling_node_template)
      unresolved ==
        [node_configuration_id |-> None,
         node_template_labels |-> NoneOpt,
         node_template_tolerations |-> NoneOpt]
  IN IF Truthy(scheduling_node_template) /\ template_details # EmptyDict
       THEN [node_configuration_id |-> template_details.configurationId,
             node_template_labels |-> Some(template_details.customLabels),
             node_template_tolerations |-> Some(template_details.customTaints)]
       ELSE unresolved

\* Lines 193-203: the configuration id, taints and labels taken from the template.
ResolveTemplate(scheduling_node_template, node_templates) ==
  LET template_details ==
        find_node_template_details(node_templates, scheduling_node_template)
      unresolved ==
        [node_configuration_id |-> None,
         node_template_labels |-> NoneOpt,
         node_template_tolerations |-> NoneOpt]
  IN IF Truthy(scheduling_node_template) /\ template_details # EmptyDict
       THEN [node_configuration_id |-> template_details.configurationId,
             node_template_labels |->
               Some([template_details.customLabels
                       EXCEPT ![TemplateKey] = scheduling_node_template]),
             node_template_tolerations |-> Some(template_details.customTaints)]
       ELSE unresolved

\* The loop guard written with <=: one iteration too many.
RotateLoopGuardOffByOne(r) == r.retry_count <= RotateMaxRetries

\* while retry_count < max_retries:
RotateLoopGuard(r) == r.retry_count < RotateMaxRetries

\* The guard without its first half: if node_configuration_id is not None:
CanProvisionWithoutInstanceType(r) == r.node_configuration_id # None

\* The guard without its second half: if instance_type:
CanProvisionWithoutConfiguration(r) == Truthy(r.instance_type)

\* if instance_type and node_configuration_id is not None:
CanProvision(r) == Truthy(r.instance_type) /\ r.node_configuration_id # None

\* Lines 182-207: the three label reads, the catalog fetch and the resolution.
RotateNodeBegin ==
  /\ Enter("rotate_node", "rot_loop")
  /\ \E ok1 \in BOOLEAN, ok2 \in BOOLEAN, ok3 \in BOOLEAN,
        fetch_ok \in BOOLEAN, served \in Catalogs :
       LET provisioner_node_id == get_node_label_value(ok1, node, ProvisionerIdKey)
           scheduling_node_template == get_node_label_value(ok2, node, TemplateKey)
           instance_type == get_node_label_value(ok3, node, InstanceTypeKey)
           node_templates == fetch_node_templates(fetch_ok, served)
           res == ResolveTemplate(scheduling_node_template, node_templates)
       IN /\ rot' = [provisioner_node_id |-> provisioner_node_id,
                     scheduling_node_template |-> scheduling_node_template,
                     instance_type |-> instance_type,
                     node_templates |-> node_templates,
                     node_configuration_id |-> res.node_configuration_id,
                     node_template_labels |-> res.node_template_labels,
                     node_template_tolerations |-> res.node_template_tolerations,
                     retry_count |-> 0,
                     new_node_id |-> None]
          /\ catalog' = served
  /\ UNCHANGED <<node, requests, provisioned, drift, waitVars, drainVars, wnnVars,
                 callVars>>

\* retry_count += 1 indented under the if: a skipped iteration counts nothing.
RotateSkipNotCounted ==
  /\ pc = "rot_loop"
  /\ RotateLoopGuard(rot)
  /\ ~CanProvision(rot)
  /\ UNCHANGED vars

\* A loop iteration whose guard at line 211 fails: only retry_count += 1.
RotateSkip ==
  /\ pc = "rot_loop"
  /\ RotateLoopGuard(rot)
  /\ ~CanProvision(rot)
  /\ rot' = [rot EXCEPT !.retry_count = rot.retry_count + 1]
  /\ UNCHANGED <<pc, fn, ret, nodeAtStart, nodeVars, requests, provisioned,
                 catalog, drift, waitVars, drainVars, wnnVars,
                 callVars>>

\* The arguments resolved anew in every iteration, from the labels the node
\* has now and the catalog the service has now.
ProvisionRequestReResolved(r) ==
  LET labels == [k \in NodeLabelKeys |->
                   IF drift[k] # None THEN drift[k] ELSE node.labels[k]]
      res == ResolveTemplate(labels[TemplateKey], catalog)
  IN AddNodePayload(labels[InstanceTypeKey], res.node_configuration_id,
                    res.node_template_labels, res.node_template_tolerations)

\* The keyword arguments of the add_node call of lines 212-219.
ProvisionRequest(r) ==
  AddNodePayload(r.instance_type, r.node_configuration_id,
                 r.node_template_labels, r.node_template_tolerations)

\* An iteration that does not wait for the node it has created: it counts the
\* attempt and goes on to the next one.
RotateAddNodeWithoutWaiting ==
  /\ pc = "rot_loop"
  /\ RotateLoopGuard(rot)
  /\ CanProvision(rot)
  /\ requests' = Append(requests, ProvisionRequest(rot))
  /\ \E outcome \in {"ok", "no_id", "error"} :
       LET new_node_id == IF outcome = "ok" THEN NewNodeId(Len(requests) + 1)
                          ELSE None
       IN /\ provisioned' = IF Truthy(new_node_id)
                              THEN provisioned \cup {new_node_id}
                              ELSE provisioned
          /\ rot' = [rot EXCEPT !.new_node_id = new_node_id,
                                !.retry_count = rot.retry_count + 1]
          /\ pc' = "rot_loop"
          /\ UNCHANGED waitVars
  /\ UNCHANGED <<fn, ret, nodeAtStart, nodeVars, catalog, drift, drainVars, wnnVars,
                 callVars>>

\* A loop iteration that calls add_node (lines 212-231).  The POST raises
\* RequestException ("error"), is answered without a nodeId ("no_id"), or is
\* answered with the id of the node the service has created ("ok").
RotateAddNode ==
  /\ pc = "rot_loop"
  /\ RotateLoopGuard(rot)
  /\ CanProvision(rot)
  /\ requests' = Append(requests, ProvisionRequest(rot))
  /\ \E outcome \in {"ok", "no_id", "error"} :
       LET new_node_id == IF outcome = "ok" THEN NewNodeId(Len(requests) + 1)
                          ELSE None
       IN IF Truthy(new_node_id)
            THEN /\ provisioned' = provisioned \cup {new_node_id}
                 /\ rot' = [rot EXCEPT !.new_node_id = new_node_id]
                 /\ pc' = "wait_loop"
                 /\ \E ra \in RotateReadyTimes :
                      StartWait(new_node_id, RotateTimeoutMinutes,
                                RotateRetryInterval, RotatePollMaxRetries, ra)
            ELSE /\ provisioned' = provisioned
                 /\ rot' = [rot EXCEPT !.new_node_id = new_node_id,
                                       !.retry_count = rot.retry_count + 1]
                 /\ pc' = "rot_loop"
                 /\ UNCHANGED waitVars
  /\ UNCHANGED <<fn, ret, nodeAtStart, nodeVars, catalog, drift, drainVars, wnnVars,
                 callVars>>

\* The return without the test of is_node_ready: the id is returned whatever
\* the wait said.
RotateAfterWaitIgnoresResult ==
  /\ pc = "rot_after_wait"
  /\ pc' = "done"
  /\ ret' = Ret("id", rot.new_node_id)
  /\ rot' = rot
  /\ UNCHANGED <<fn, nodeAtStart, nodeVars, requests, provisioned,
                 catalog, drift, waitVars, drainVars, wnnVars,
                 callVars>>

\* Lines 232-237: return the id when the wait said ready, else count the attempt.
RotateAfterWait ==
  /\ pc = "rot_after_wait"
  /\ IF ret.val
       THEN /\ pc' = "done"
            /\ ret' = Ret("id", rot.new_node_id)
            /\ rot' = rot
       ELSE /\ pc' = "rot_loop"
            /\ ret' = Ret("init", None)
            /\ rot' = [rot EXCEPT !.retry_count = rot.retry_count + 1]
  /\ UNCHANGED <<fn, nodeAtStart, nodeVars, requests, provisioned,
                 catalog, drift, waitVars, drainVars, wnnVars,
                 callVars>>

\* The labels a read of the original node finds now.
CurrentLabels ==
  [k \in NodeLabelKeys |-> IF drift[k] # None THEN drift[k] ELSE node.labels[k]]

\* Between two attempts of a rotation others edit what the rotation has read:
\* a template named t1 with another configuration is put in front of the
\* service's catalog, and the node's instance-type label is rewritten.
OthersChangeCatalogAndNode ==
  /\ pc = "rot_loop"
  /\ RotateLoopGuard(rot)
  /\ Len(requests) >= 1
  /\ (catalog = <<>> \/ catalog[1] # T1c2)
  /\ catalog' = <<T1c2>> \o catalog
  /\ drift' = [drift EXCEPT ![InstanceTypeKey] = "c5.xlarge"]
  /\ UNCHANGED <<pc, fn, ret, nodeAtStart, nodeVars, rot, requests, provisioned,
                 waitVars, drainVars, wnnVars, callVars>>

\* An exhausted rotation that cordons the original node before it gives up.
RotateExhaustedCordons ==
  /\ pc = "rot_loop"
  /\ ~RotateLoopGuard(rot)
  /\ pc' = "done"
  /\ ret' = Ret("None", None)
  /\ node' = cordon_node(node, TRUE)
  /\ patches' = patches + 1
  /\ UNCHANGED <<fn, nodeAtStart, rotVars, waitVars, drainVars, wnnVars, callVars>>

\* Lines 239-240: the loop is over, log and return None.
RotateExhausted ==
  /\ pc = "rot_loop"
  /\ ~RotateLoopGuard(rot)
  /\ pc' = "done"
  /\ ret' = Ret("None", None)
  /\ UNCHANGED <<fn, nodeAtStart, nodeVars, rotVars, waitVars, drainVars, wnnVars, callVars>>

(***************************************************************************)
(* cordon_node, drain_node_with_timeout (node_utils.py)                     *)
(***************************************************************************)
\* cordon_node called on the original node by the caller.
CordonNode ==
  /\ Enter("cordon_node", "done")
  /\ \E patch_ok \in BOOLEAN : node' = cordon_node(node, patch_ok)
  /\ UNCHANGED <<rotVars, waitVars, drainVars, wnnVars, callVars>>

\* drain_node_with_timeout is entered; pods are those scheduled on the node.
DrainCall ==
  /\ Enter("drain_node_with_timeout", "drain_exec")
  /\ pods' \in SUBSET PodNames
  /\ UNCHANGED <<node, dr, rotVars, waitVars, wnnVars, callVars>>

\* The handlers in the other order: except Exception catches the timeout's
\* siblings first and every failure of the executor takes the fallback.
DrainExecErrorFallsBack ==
  /\ pc = "drain_exec"
  /\ \E outcome \in {"drained", "timeout", "error"},
        cordoned \in BOOLEAN, left \in SUBSET pods :
       /\ outcome = "drained" => (cordoned /\ left = {})
       /\ node' = IF cordoned THEN [node EXCEPT !.unschedulable = TRUE] ELSE node
       /\ pods' = left
       /\ IF outcome = "drained"
            THEN /\ pc' = "done" /\ ret' = Ret("None", None)
                 /\ dr' = [dr EXCEPT !.outcome = outcome]
            ELSE /\ pc' = "drain_dump" /\ ret' = ret
                 /\ dr' = [dr EXCEPT !.atTimeout = left, !.outcome = outcome]
  /\ UNCHANGED <<fn, nodeAtStart, patches, rotVars, waitVars, wnnVars, callVars>>

\* subprocess.run(kubectl drain ..., timeout=timeout).  kubectl drain cordons
\* the node and then evicts its pods; it completes, is killed at the timeout
\* (TimeoutExpired) or fails (CalledProcessError or another exception, which
\* the last handler logs and re-raises).
DrainExec ==
  /\ pc = "drain_exec"
  /\ \E outcome \in {"drained", "timeout", "error"},
        cordoned \in BOOLEAN, left \in SUBSET pods :
       /\ outcome = "drained" => (cordoned /\ left = {})
       /\ node' = IF cordoned THEN [node EXCEPT !.unschedulable = TRUE] ELSE node
       /\ pods' = left
       /\ CASE outcome = "drained" ->
                 /\ pc' = "done" /\ ret' = Ret("None", None)
                 /\ dr' = [dr EXCEPT !.outcome = outcome]
            [] outcome = "timeout" ->
                 /\ pc' = "drain_dump" /\ ret' = ret
                 /\ dr' = [dr EXCEPT !.atTimeout = left, !.outcome = outcome]
            [] outcome = "error" ->
                 /\ pc' = "done" /\ ret' = Ret("raise", None)
                 /\ dr' = [dr EXCEPT !.outcome = outcome]
  /\ UNCHANGED <<fn, nodeAtStart, patches, rotVars, waitVars, wnnVars, callVars>>

\* A pod evicted by the killed kubectl drain ends before the pods are listed.
PodTerminates ==
  /\ pc = "drain_dump"
  /\ \E p \in pods : pods' = pods \ {p}
  /\ UNCHANGED <<pc, fn, ret, nodeAtStart, nodeVars, dr, rotVars, waitVars, wnnVars, callVars>>

\* pods = dump_pods_on_node(v1, node_name): the pods now scheduled on the node.
dump_pods_on_node(scheduled) == scheduled

DrainDump ==
  /\ pc = "drain_dump"
  /\ dr' = [dr EXCEPT !.pods = dump_pods_on_node(pods),
                      !.trail = Append(dr.trail, "capture")]
  /\ pc' = "drain_label"
  /\ UNCHANGED <<fn, ret, nodeAtStart, nodeVars, pods, rotVars, waitVars, wnnVars, callVars>>

\* A label patch whose ApiException is not swallowed: the fallback stops.
DrainLabelErrorAborts ==
  /\ pc = "drain_label"
  /\ \E patch_ok \in BOOLEAN :
       /\ node' = label_node(node, DrainStatusKey, "failed", patch_ok)
       /\ dr' = [dr EXCEPT !.trail =
                   Append(dr.trail, IF patch_ok THEN "label_ok" ELSE "label_error")]
       /\ IF patch_ok THEN pc' = "drain_uncordon" /\ ret' = ret
                      ELSE pc' = "done" /\ ret' = Ret("raise", None)
  /\ patches' = patches + 1
  /\ UNCHANGED <<fn, nodeAtStart, pods, rotVars, waitVars, wnnVars, callVars>>

\* label_node(v1, node_name, "drain-status", "failed")
DrainLabel ==
  /\ pc = "drain_label"
  /\ \E patch_ok \in BOOLEAN :
       /\ node' = label_node(node, DrainStatusKey, "failed", patch_ok)
       /\ dr' = [dr EXCEPT !.trail =
                   Append(dr.trail, IF patch_ok THEN "label_ok" ELSE "label_error")]
  /\ patches' = patches + 1
  /\ pc' = "drain_uncordon"
  /\ UNCHANGED <<fn, ret, nodeAtStart, pods, rotVars, waitVars, wnnVars, callVars>>

\* uncordon_node(v1, node_name); return pods
DrainUncordon ==
  /\ pc = "drain_uncordon"
  /\ \E patch_ok \in BOOLEAN :
       /\ node' = uncordon_node(node, patch_ok)
       /\ dr' = [dr EXCEPT !.trail =
                   Append(dr.trail,
                          IF patch_ok THEN "uncordon_ok" ELSE "uncordon_error")]
  /\ patches' = patches + 1
  /\ pc' = "done"
  /\ ret' = Ret("pods", dr.pods)
  /\ UNCHANGED <<fn, nodeAtStart, pods, rotVars, waitVars, wnnVars, callVars>>

(***************************************************************************)
(* wait_for_new_nodes (node_utils.py)                                       *)
(***************************************************************************)
Cond(type, status) == [type |-> type, status |-> status]

\* node.status.conditions of a listed node.
ConditionSets ==
  { {Cond("Ready", "True")},
    {Cond("Ready", "False"), Cond("MemoryPressure", "False")},
    {Cond("MemoryPressure", "False")} }

\* v1.list_node().items: the nodes that exist, each with its conditions.
Listings == UNION { [S -> ConditionSets] : S \in SUBSET NodeNames }

\* new_nodes: the listed names that are not in original_nodes.
NewNodes(nodes, original_nodes) ==
  {n \in DOMAIN nodes : n \notin original_nodes}

\* all(condition.status == "True" for condition in ... if condition.type == "Ready")
AllReadyTrue(conditions) ==
  \A condition \in conditions :
    condition.type = "Ready" => condition.status = "True"

\* ready_new_nodes, as names.
ReadyNewNodes(nodes, original_nodes) ==
  {n \in DOMAIN nodes :
     n \in NewNodes(nodes, original_nodes) /\ AllReadyTrue(nodes[n])}

\* int(os.getenv("TOTAL_WAIT_CYCLES", 5)): set in the environment or not.
CycleValues == (0..MaxCycles) \cup {DefaultWaitCycles}

WnnCall ==
  /\ Enter("wait_for_new_nodes", "wnn_loop")
  /\ \E original_nodes \in SUBSET NodeNames, cycles \in CycleValues,
        min_ready \in 0..MaxMinReady :
       wn' = [original_nodes |-> original_nodes,
              total_wait_cycles |-> cycles,
              min_ready |-> min_ready]
  /\ UNCHANGED <<node, live, rotVars, waitVars, drainVars, callVars>>

\* One cycle of the loop: list the nodes, return the ready new ones when there
\* are enough of them, else count the cycle down and sleep.
WnnCycle ==
  /\ pc = "wnn_loop"
  /\ wn.total_wait_cycles > 0
  /\ \E nodes \in Listings :
       LET ready_new_nodes == ReadyNewNodes(nodes, wn.original_nodes)
       IN /\ live' = nodes
          /\ IF Cardinality(ready_new_nodes) >= wn.min_ready
               THEN /\ pc' = "done"
                    /\ ret' = Ret("names", ready_new_nodes)
                    /\ wn' = wn
               ELSE /\ pc' = "wnn_loop"
                    /\ ret' = ret
                    /\ wn' = [wn EXCEPT !.total_wait_cycles = wn.total_wait_cycles - 1]
  /\ UNCHANGED <<fn, nodeAtStart, nodeVars, rotVars, waitVars, drainVars, callVars>>

\* The loop ends with no return statement after it: the function returns None.
WnnExhausted ==
  /\ pc = "wnn_loop"
  /\ ~(wn.total_wait_cycles > 0)
  /\ pc' = "done"
  /\ ret' = Ret("None", None)
  /\ UNCHANGED <<fn, nodeAtStart, nodeVars, rotVars, waitVars, drainVars, wnnVars, callVars>>

(***************************************************************************)
(* Helper functions called on their own                                     *)
(***************************************************************************)
\* find_node_template_details is called with a catalog and a name.
FindTemplateCall ==
  /\ Enter("find_node_template_details", "find_loop")
  /\ \E node_templates \in Catalogs, template_name \in TemplateNames :
       args' = [node_templates |-> node_templates,
                template_name |-> template_name]
  /\ UNCHANGED <<node, rotVars, waitVars, drainVars, wnnVars>>

\* Lines 60-63: the loop over the items and the return.
FindTemplateReturn ==
  /\ pc = "find_loop"
  /\ pc' = "done"
  /\ ret' = Ret("template",
                find_node_template_details(args.node_templates, args.template_name))
  /\ UNCHANGED <<fn, nodeAtStart, nodeVars, rotVars, waitVars, drainVars, wnnVars,
                 callVars>>

\* The nodes get_node_label_value may be asked about: the original node, a
\* node whose metadata.labels is None, and a name no node carries.
LabelTargets == {"original", "unlabelled", "missing"}

Target(node_name) ==
  IF node_name = "original" THEN node
  ELSE [unschedulable |-> FALSE, labels |-> NodeLabels(None, None, None)]

\* What v1.read_node(node_name) does: it returns the node, raises ApiException
\* (the API server answered with an error status, 404 for a missing node), or
\* raises the transport's exception (the API server was not reached).
ReadOutcomes(node_name) ==
  IF node_name = "missing" THEN {"api_exception", "transport_error"}
  ELSE {"ok", "api_exception", "transport_error"}

\* get_node_label_value is called with a node name and a label key.
GetLabelCall ==
  /\ Enter("get_node_label_value", "label_read")
  /\ \E node_name \in LabelTargets, label_key \in NodeLabelKeys :
       args' = [node_name |-> node_name, label_key |-> label_key,
                read |-> "pending"]
  /\ UNCHANGED <<node, rotVars, waitVars, drainVars, wnnVars>>

\* Lines 19-34: the read inside try, the lookup, and except ApiException.
GetLabelReturn ==
  /\ pc = "label_read"
  /\ pc' = "done"
  /\ \E outcome \in ReadOutcomes(args.node_name) :
       /\ args' = [args EXCEPT !.read = outcome]
       /\ ret' = IF outcome = "transport_error"
                   THEN Ret("raise", "MaxRetryError")
                   ELSE LET label_value ==
                              get_node_label_value(outcome = "ok",
                                                   Target(args.node_name),
                                                   args.label_key)
                        IN IF label_value = None THEN Ret("None", None)
                           ELSE Ret("str", label_value)
  /\ UNCHANGED <<fn, nodeAtStart, nodeVars, rotVars, waitVars, drainVars, wnnVars>>

\* Strings of config.CRITICAL_WORKLOADS and of pod labels, as sequences of
\* their characters.
Eq == "="
EntryKV == <<"k", Eq, "v">>                        \* "k=v"
EntryJU == <<"j", Eq, "u">>                        \* "j=u"
EntryKVW == <<"k", Eq, "v", Eq, "w">>              \* "k=v=w"
WorkloadEntries == {EntryKV, EntryJU, EntryKVW}

\* pod.metadata.labels: None, or a dict given as its set of <<key, value>>.
PodLabelSets ==
  { NoneOpt,
    Some({}),
    Some({ << <<"k">>, <<"v">> >> }),
    Some({ << <<"k">>, <<"v", Eq, "w">> >> }),
    Some({ << <<"j">>, <<"u">> >>, << <<"k">>, <<"x">> >> }) }

\* The lists of at most n elements of a set.
ListsUpTo(S, n) == UNION { [1..m -> S] : m \in 0..n }

\* str.split(sep): the pieces between all the occurrences of sep.
RECURSIVE Split(_, _)
Split(s, sep) ==
  LET at == {i \in 1..Len(s) : s[i] = sep}
  IN IF at = {} THEN <<s>>
     ELSE LET i == CHOOSE x \in at : \A y \in at : x <= y
          IN <<SubSeq(s, 1, i - 1)>> \o Split(SubSeq(s, i + 1, Len(s)), sep)

\* dict.get(key): Some(value), or NoneOpt for a key the dict does not hold.
Get(dict, key) ==
  IF \E kv \in dict : kv[1] = key
    THEN Some((CHOOSE kv \in dict : kv[1] = key)[2])
    ELSE NoneOpt

\* Lines 107-112: the loop over the pods and, inside, over the entries.  The
\* unpacking of line 109 raises ValueError unless the split has two pieces;
\* .get of line 110 raises AttributeError on labels that are None.
RECURSIVE ScanPods(_, _, _, _)
ScanPods(pod_labels, workloads, i, j) ==
  IF i > Len(pod_labels) THEN Ret("bool", FALSE)
  ELSE IF j > Len(workloads) THEN ScanPods(pod_labels, workloads, i + 1, 1)
  ELSE LET parts == Split(workloads[j], Eq)
       IN IF Len(parts) # 2 THEN Ret("raise", "ValueError")
          ELSE IF pod_labels[i] = NoneOpt THEN Ret("raise", "AttributeError")
          ELSE IF Get(pod_labels[i][1], parts[1]) = Some(parts[2])
                 THEN Ret("bool", TRUE)
          ELSE ScanPods(pod_labels, workloads, i, j + 1)

is_node_running_critical_pods(pod_labels, workloads) ==
  ScanPods(pod_labels, workloads, 1, 1)

\* is_node_running_critical_pods is called; the listing of line 106 returns
\* the pods of the node, CRITICAL_WORKLOADS is what the configuration holds.
CriticalCall ==
  /\ Enter("is_node_running_critical_pods", "critical_loop")
  /\ \E pod_labels \in ListsUpTo(PodLabelSets, MaxPods),
        workloads \in ListsUpTo(WorkloadEntries, MaxWorkloads) :
       args' = [pods |-> pod_labels, CRITICAL_WORKLOADS |-> workloads]
  /\ UNCHANGED <<node, rotVars, waitVars, drainVars, wnnVars>>

CriticalReturn ==
  /\ pc = "critical_loop"
  /\ pc' = "done"
  /\ ret' = is_node_running_critical_pods(args.pods, args.CRITICAL_WORKLOADS)
  /\ UNCHANGED <<fn, nodeAtStart, nodeVars, rotVars, waitVars, drainVars, wnnVars,
                 callVars>>

(***************************************************************************)
(* Specification                                                            *)
(***************************************************************************)
\* The caller enters a function, or takes the result of the one that returned.
Call ==
  \/ CordonNode \/ DrainCall \/ WnnCall \/ WaitCall \/ RotateNodeBegin
  \/ FindTemplateCall \/ GetLabelCall \/ CriticalCall
  \/ Return

\* A step inside a function that has been entered.
Step ==
  \/ WaitTimedOut \/ WaitPollExhausted \/ WaitPoll
  \/ RotateSkip \/ RotateAddNode \/ RotateAfterWait \/ RotateExhausted
  \/ DrainExec \/ PodTerminates \/ DrainDump \/ DrainLabel \/ DrainUncordon
  \/ WnnCycle \/ WnnExhausted
  \/ FindTemplateReturn \/ GetLabelReturn \/ CriticalReturn

\* What others do to the services the program talks to.
Env == OthersChangeCatalogAndNode

Next == Call \/ Step \/ Env

Spec == Init /\ [][Next]_vars

\* A function that has been entered keeps running: every external call returns.
LiveSpec == Spec /\ WF_vars(Step)

(***************************************************************************)
(* Properties                                                               *)
(***************************************************************************)
RotateReturned == fn = "rotate_node" /\ pc = "done"
RotateExhaustedFailure == RotateReturned /\ ret.kind = "None"

\* C1: while rotate_node runs, and when it has returned (with a node id or
\* with None after its attempts are exhausted), the original node has received
\* no patch from it: its unschedulable flag and its labels are those it had
\* when rotate_node was entered.
RotateNeverTouchesOriginalNode ==
  fn = "rotate_node" =>
    /\ patches = 0
    /\ node.unschedulable = nodeAtStart.unschedulable
    /\ node.labels = nodeAtStart.labels

\* A rotation that ended in ExhaustedFailure after three failed attempts.
ExhaustedAfterThreeRequests ==
  RotateExhaustedFailure /\ Len(requests) = RotateMaxRetries

\* C2 as stated: a rotation that reports exhaustion has made exactly 3
\* create-node requests, and no rotation makes more than 3.
ExhaustionAfterExactlyThreeRequests ==
  /\ RotateExhaustedFailure => Len(requests) = RotateMaxRetries
  /\ fn = "rotate_node" => Len(requests) <= RotateMaxRetries

\* C2 amended: a rotation that reports exhaustion has passed through exactly
\* 3 loop iterations; it has made exactly 3 create-node requests when the
\* instance type was read non-empty and a configuration id was resolved, and
\* none otherwise; no rotation makes more than 3 requests, nor more requests
\* than iterations begun.
ExhaustionAfterThreeIterations ==
  /\ RotateExhaustedFailure =>
       /\ rot.retry_count = RotateMaxRetries
       /\ Len(requests) = IF CanProvision(rot) THEN RotateMaxRetries ELSE 0
  /\ fn = "rotate_node" =>
       /\ Len(requests) <= RotateMaxRetries
       /\ Len(requests) <= rot.retry_count + 1

\* A rotation exhausted by three requests whose nodes never turned ready.
ExhaustedByThreeUnreadyNodes ==
  RotateExhaustedFailure /\ Cardinality(provisioned) = RotateMaxRetries

DrainReturned == fn = "drain_node_with_timeout" /\ pc = "done"

\* C3 as stated: when the drain executor has timed out, the call returns with
\* the node schedulable, labelled drain-status=failed, and the returned value
\* is the set of pods that were on the node at the moment of the timeout.
DrainTimeoutLeavesNodeSchedulable ==
  (DrainReturned /\ dr.outcome = "timeout") =>
    /\ node.unschedulable = FALSE
    /\ node.labels[DrainStatusKey] = "failed"
    /\ ret.kind = "pods"
    /\ ret.val = dr.atTimeout

\* wait_for_node_ready has returned, to its caller or into rotate_node.
WaitReturned ==
  \/ fn = "wait_for_node_ready" /\ pc = "done"
  \/ pc = "rot_after_wait"

ElapsedWithinOneInterval ==
  WaitReturned =>
    /\ clock <= Min(w.timeout_minutes * SecondsPerMinute,
                    w.retry_interval_seconds * w.max_retries)
                + w.retry_interval_seconds
    /\ pollCount <= w.max_retries

\* C5 amended: with each poll taking at most MaxPollTime, the time from
\* entering to leaving the wait is at most
\* min(timeoutWindow, (pollInterval + MaxPollTime) * maxPolls) plus one poll
\* interval and one poll time, and at most maxPolls polls are issued.
ElapsedWithinOneIntervalAndPolls ==
  WaitReturned =>
    /\ clock <= Min(w.timeout_minutes * SecondsPerMinute,
                    (w.retry_interval_seconds + MaxPollTime) * w.max_retries)
                + w.retry_interval_seconds + MaxPollTime
    /\ pollCount <= w.max_retries

\* A wait that used all its polls, each of which took time.
AllPollsUsedAndSlow ==
  /\ WaitReturned
  /\ w.max_retries > 0 /\ pollCount = w.max_retries
  /\ clock > w.retry_interval_seconds * w.max_retries + w.retry_interval_seconds

\* C6: wait_for_node_ready ends by returning a boolean, never by raising, and
\* a poll that fails with a RequestException does what a not-ready poll does:
\* it counts one retry, sleeps one interval and goes back to the loop head.
TransientErrorIsANotReadyPoll ==
  /\ [](WaitReturned => ret.kind = "bool")
  /\ [][\A d \in PollTimes :
          WaitPollWith("error", d) =>
            /\ pc' = "wait_loop"
            /\ ret' = ret
            /\ w'.retries = w.retries + 1
            /\ clock' = clock + d + w.retry_interval_seconds
            /\ pollCount' = pollCount + 1
            /\ sawReady' = sawReady]_vars

\* A wait that went on after a failed poll and ended with a ready node.
ReadyAfterFailedPoll ==
  WaitReturned /\ hadError /\ ret.kind = "bool" /\ ret.val /\ pollCount >= 2

\* The template name read from the node matches no template of the catalog.
NoTemplateMatch ==
  /\ fn = "rotate_node"
  /\ Truthy(rot.scheduling_node_template)
  /\ find_node_template_details(rot.node_templates,
                                rot.scheduling_node_template) = EmptyDict

\* C7 as stated: when the template name matches no template of the fetched
\* catalog, rotate_node still issues a create-node request, without label
\* overrides and without taint overrides.
NoTemplateStillProvisions ==
  (NoTemplateMatch /\ pc = "done") =>
    /\ Len(requests) >= 1
    /\ \A i \in 1..Len(requests) :
         /\ requests[i].kubernetesLabels = NoneOpt
         /\ requests[i].kubernetesTaints = NoneOpt

\* C7 amended: when the template name matches no template of the fetched
\* catalog, the lookup returns absent, no configuration id, label override or
\* taint override is set, and rotate_node issues no create-node request: its
\* three loop iterations pass without one and it returns absent.
NoTemplateNeverProvisions ==
  NoTemplateMatch =>
    /\ rot.node_configuration_id = None
    /\ rot.node_template_labels = NoneOpt
    /\ rot.node_template_tolerations = NoneOpt
    /\ requests = <<>>
    /\ provisioned = {}
    /\ pc \in {"rot_loop", "done"}
    /\ pc = "done" => (ret.kind = "None" /\ rot.retry_count = RotateMaxRetries)

\* A rotation of a node with an instance type whose template name matched
\* nothing in a catalog that is not empty, and which has returned.
UnmatchedTemplateRotationReturned ==
  /\ NoTemplateMatch /\ pc = "done"
  /\ Truthy(rot.instance_type)
  /\ rot.node_templates # <<>>

WnnReturned == fn = "wait_for_new_nodes" /\ pc = "done"

\* The listed nodes that are not original and whose Ready condition is "True".
TrulyReadyNewNodes(nodes, original_nodes) ==
  {n \in DOMAIN nodes :
     n \notin original_nodes /\ Cond("Ready", "True") \in nodes[n]}

\* C8 as stated: wait_for_new_nodes returns exactly the nodes of N - O whose
\* Ready condition is "True", in the first cycle where there are at least the
\* minimum of them, and nothing when the cycles run out (the None the code
\* returns there is taken for the empty collection).
WnnReturnsExactlyReadyNewNodes ==
  WnnReturned =>
    \/ /\ ret.kind = "names"
       /\ ret.val = TrulyReadyNewNodes(live, wn.original_nodes)
       /\ Cardinality(ret.val) >= wn.min_ready
    \/ /\ ret.kind = "None"
       /\ wn.total_wait_cycles = 0

\* C9: when the drain executor fails with an error that is not a timeout, the
\* call ends at once by raising that error to its caller: it returns neither
\* None nor a pod list, captures no pods and issues no label or uncordon patch
\* (the labels are unchanged and a cordoned node stays cordoned).
DrainErrorIsRaisedWithoutFallback ==
  (fn = "drain_node_with_timeout" /\ dr.outcome = "error") =>
    /\ pc = "done"
    /\ ret.kind = "raise"
    /\ patches = 0
    /\ dr.pods = {} /\ dr.atTimeout = {}
    /\ node.labels = nodeAtStart.labels
    /\ nodeAtStart.unschedulable => node.unschedulable

\* The executor failed after it had cordoned the node, with pods left on it.
DrainFailedOnCordonedNode ==
  /\ DrainReturned /\ dr.outcome = "error" /\ ret.kind = "raise"
  /\ node.unschedulable /\ ~nodeAtStart.unschedulable
  /\ pods # {}

MatchingIndexes(items, name) == {i \in 1..Len(items) : items[i].name = name}

\* The template at the least of these positions.
FirstMatching(items, name) ==
  LET M == MatchingIndexes(items, name)
  IN items[CHOOSE i \in M : \A j \in M : i <= j]

\* C11: when the node (as the rotation read it) has an instance-type label
\* and its template name matches a template of the fetched catalog, every
\* provisioning request of the rotation carries the node's instance type, the
\* configurationId and the custom taints of the first such template, and its
\* custom labels with the key scheduling.cast.ai/node-template set to the
\* node's template name.
RequestsCarryResolvedTemplate ==
  LET name == node.labels[TemplateKey]
      instance == node.labels[InstanceTypeKey]
  IN (/\ Truthy(instance)
      /\ MatchingIndexes(rot.node_templates, name) # {})
     => \A k \in 1..Len(requests) :
          LET T == FirstMatching(rot.node_templates, name)
          IN /\ requests[k].instanceType = instance
             /\ requests[k].configurationId = T.configurationId
             /\ requests[k].kubernetesTaints = Some(T.customTaints)
             /\ requests[k].kubernetesLabels =
                  Some([l \in TemplateLabelKeys |->
                          IF l = TemplateKey THEN name ELSE T.customLabels[l]])

\* A request was sent for a template whose custom labels held another value
\* for the key scheduling.cast.ai/node-template.
RequestOverridesTemplateLabel ==
  /\ Len(requests) >= 1
  /\ FirstMatching(rot.node_templates, node.labels[TemplateKey]) = T1c2
  /\ T1c2.customLabels[TemplateKey] = "stale"
  /\ requests[1].kubernetesLabels = Some(CustomLabels("t1", "prod"))
  /\ requests[1].kubernetesTaints = Some(<<"dedicated">>)


\* C12: when rotate_node returns None, no node created by an add_node call
\* of that rotation remains provisioned.
FailedRotationLeavesNoNode ==
  (RotateReturned /\ ret.kind = "None") => provisioned = {}


(***************************************************************************)
(* Helper functions                                                         *)
(***************************************************************************)
FindReturned == fn = "find_node_template_details" /\ pc = "done"

\* C13: find_node_template_details returns the template at the least position
\* of the catalog whose name equals the given name, and the empty result when
\* the catalog has no items or no template of that name.
FindReturnsFirstExactMatch ==
  FindReturned =>
    LET M == MatchingIndexes(args.node_templates, args.template_name)
    IN /\ ret.kind = "template"
       /\ M = {} => ret.val = EmptyDict
       /\ M # {} =>
            /\ ret.val.name = args.template_name
            /\ \E i \in M : /\ ret.val = args.node_templates[i]
                            /\ \A j \in M : i <= j

\* Two templates of the catalog carry the name: the first one is returned.
FoundFirstOfTwo ==
  /\ FindReturned
  /\ Cardinality(MatchingIndexes(args.node_templates, args.template_name)) = 2
  /\ ret.val = args.node_templates[1]
  /\ ret.val # args.node_templates[2]


GetLabelReturned == fn = "get_node_label_value" /\ pc = "done"

\* C14: get_node_label_value returns the value the node's label set holds
\* for the key, or None when the key is not in the set, the node has no
\* labels, the node does not exist or the read fails; it raises for no
\* outcome of the read.
LabelValueOrAbsenceNeverRaises ==
  GetLabelReturned =>
    LET labels == Target(args.node_name).labels
    IN /\ ret.kind \in {"str", "None"}
       /\ ret.kind = "str" <=>
            (args.read = "ok" /\ labels[args.label_key] # None)
       /\ ret.kind = "str" => ret.val = labels[args.label_key]


(***************************************************************************)
(* Attempts of one rotation                                                 *)
(***************************************************************************)
\* The create-node call of attempt k failed: it created no node.
CreateFailed(k) == NewNodeId(k) \notin provisioned

\* The wait for the node of attempt k has ended TimedOut or PollExhausted.
WaitFailed(k) ==
  /\ NewNodeId(k) \in provisioned
  /\ w.node_id = NewNodeId(k)
  /\ ~sawReady
  /\ (~(clock < w.end_time) \/ w.retries >= w.max_retries)

\* An attempt is in flight from its create-node request to its terminal state.
InFlight == Len(requests) - rot.retry_count

\* C15: the attempts of a rotation are sequential.  At most one attempt is in
\* flight, and only while the rotation waits for that attempt's node; a
\* create-node request is issued only when every earlier attempt has been
\* counted as failed, the last one by a create-node error or by a wait that
\* ended TimedOut or PollExhausted.
AttemptsAreSequential ==
  /\ [](requests # <<>> =>
          /\ InFlight \in {0, 1}
          /\ InFlight = 1 =>
               \/ pc \in {"wait_loop", "rot_after_wait"}
               \/ RotateReturned /\ ret.kind = "id")
  /\ [][Len(requests') > Len(requests) =>
          /\ Len(requests') = Len(requests) + 1
          /\ pc = "rot_loop"
          /\ rot.retry_count = Len(requests)
          /\ requests # <<>> =>
               CreateFailed(Len(requests)) \/ WaitFailed(Len(requests))]_vars

\* The third request of a rotation is sent after a create-node error and a
\* wait that timed out.
ThirdRequestAfterTwoFailures ==
  /\ Len(requests) = 3
  /\ CreateFailed(1)
  /\ NewNodeId(2) \in provisioned
  /\ pc = "wait_loop"
  /\ w.node_id = NewNodeId(3)


\* What a rotation has read and resolved before its loop.
Resolved(r) ==
  <<r.provisioner_node_id, r.scheduling_node_template, r.instance_type,
    r.node_templates, r.node_configuration_id, r.node_template_labels,
    r.node_template_tolerations>>

\* C16: a rotation reads the labels, fetches the catalog and resolves the
\* template once, before its loop: what it has resolved never changes while
\* the rotation runs, and all its create-node requests carry the same
\* instance type, configuration id, labels and taints, whatever others do to
\* the node and to the catalog between the attempts.
ResolvedOnceForAllAttempts ==
  /\ [](\A k \in 1..Len(requests) :
          /\ requests[k] = requests[1]
          /\ requests[k] = AddNodePayload(rot.instance_type,
                                          rot.node_configuration_id,
                                          rot.node_template_labels,
                                          rot.node_template_tolerations))
  /\ [][(fn = "rotate_node" /\ fn' = "rotate_node") =>
          Resolved(rot') = Resolved(rot)]_vars

\* The third request is sent although the node's instance-type label and the
\* catalog's first template of that name are no longer those of the request.
ThirdRequestAfterChanges ==
  /\ Len(requests) = 3
  /\ CurrentLabels[InstanceTypeKey] # requests[3].instanceType
  /\ MatchingIndexes(catalog, CurrentLabels[TemplateKey]) # {}
  /\ FirstMatching(catalog, CurrentLabels[TemplateKey]).configurationId
       # requests[3].configurationId


(***************************************************************************)
(* The fallback of a drain that timed out                                   *)
(***************************************************************************)
\* C17: after a drain timeout the fallback captures the pods left on the
\* node, then patches the label drain-status=failed, then patches the node
\* schedulable, then returns the captured pods.  An ApiException of the label
\* patch does not keep the uncordon patch from being issued, and an
\* ApiException of the uncordon patch does not change what is returned.
FallbackStepsInOrder ==
  /\ [](LET t == dr.trail
        IN /\ t # <<>> => dr.outcome = "timeout"
           /\ Len(t) <= 3
           /\ Len(t) >= 1 => t[1] = "capture"
           /\ Len(t) >= 2 => t[2] \in {"label_ok", "label_error"}
           /\ Len(t) >= 3 => t[3] \in {"uncordon_ok", "uncordon_error"}
           /\ (DrainReturned /\ dr.outcome = "timeout") =>
                /\ Len(t) = 3
                /\ ret.kind = "pods"
                /\ ret.val = dr.pods)
  /\ [][(dr.trail # <<>> /\ dr'.trail # <<>>) => dr'.pods = dr.pods]_vars

\* Both patches of the fallback raised ApiException and the captured pods
\* were returned all the same.
FallbackReturnedAfterTwoPatchErrors ==
  /\ DrainReturned
  /\ dr.trail = <<"capture", "label_error", "uncordon_error">>
  /\ ret.kind = "pods"
  /\ ret.val # {}


(***************************************************************************)
(* Critical workloads                                                       *)
(***************************************************************************)
CriticalReturned == fn = "is_node_running_critical_pods" /\ pc = "done"

\* The key of an entry: what stands before its first "=".
EntryKey(entry) ==
  LET at == {i \in 1..Len(entry) : entry[i] = Eq}
  IN SubSeq(entry, 1, (CHOOSE x \in at : \A y \in at : x <= y) - 1)

\* The value of an entry: what stands after its first "=".
EntryValue(entry) ==
  LET at == {i \in 1..Len(entry) : entry[i] = Eq}
  IN SubSeq(entry, (CHOOSE x \in at : \A y \in at : x <= y) + 1, Len(entry))

\* The labels of a pod; a pod without labels has the empty set.
LabelsOf(pod_labels) == IF pod_labels = NoneOpt THEN {} ELSE pod_labels[1]

\* C18: is_node_running_critical_pods returns true exactly when a pod on the
\* node carries a label whose key and value are those of an entry of
\* CRITICAL_WORKLOADS split at its first "=", also for entries whose value
\* contains "=" and for pods with an empty label set.  (Stated for listings
\* in which every pod has a label dict.)
CriticalIffLabelOfSomeEntry ==
  (CriticalReturned /\ \A i \in 1..Len(args.pods) : args.pods[i] # NoneOpt) =>
    /\ ret.kind = "bool"
    /\ ret.val =
         (\E i \in 1..Len(args.pods), j \in 1..Len(args.CRITICAL_WORKLOADS) :
            << EntryKey(args.CRITICAL_WORKLOADS[j]),
               EntryValue(args.CRITICAL_WORKLOADS[j]) >>
              \in LabelsOf(args.pods[i]))


(***************************************************************************)
(* The result of a rotation                                                 *)
(***************************************************************************)
\* C19: rotate_node returns a node id only when that id is the one the
\* create-node call of the most recent attempt returned and the wait for that
\* same id returned true; a wait that returned false (TimedOut or
\* PollExhausted) is followed by the next iteration, never by a return of an
\* id, and the id of an earlier attempt is never returned.
ReturnedIdIsReadyNodeOfLastAttempt ==
  /\ []((RotateReturned /\ ret.kind = "id") =>
          /\ requests # <<>>
          /\ ret.val = NewNodeId(Len(requests))
          /\ ret.val \in provisioned
          /\ ret.val = rot.new_node_id
          /\ w.node_id = ret.val
          /\ sawReady
          /\ InFlight = 1)
  /\ [][(pc = "rot_after_wait" /\ ret.val = FALSE) =>
          (pc' = "rot_loop" /\ ret'.kind # "id")]_vars

\* The second attempt succeeded: its id is returned, not the id of the node
\* of the first attempt, whose wait timed out.
SecondAttemptSucceeded ==
  /\ RotateReturned /\ ret.kind = "id"
  /\ ret.val = NewNodeId(2)
  /\ NewNodeId(1) \in provisioned
  /\ rot.retry_count = 1


\* The rotation has read no instance type, or has resolved no configuration id.
NothingToProvision ==
  \/ rot.instance_type \in {None, ""}
  \/ rot.node_configuration_id = None

\* C20: rotate_node issues a create-node request only when the instance-type
\* label was read with a non-empty value and a configuration id was taken
\* from a template of the catalog that carries the node's template name; when
\* one of the two is missing, the iterations of the loop pass without a
\* create-node request and without a status poll, and rotate_node returns
\* None after them.
RequestsOnlyWithInstanceTypeAndConfiguration ==
  /\ requests # <<>> =>
       /\ rot.instance_type = node.labels[InstanceTypeKey]
       /\ rot.instance_type \notin {None, ""}
       /\ MatchingIndexes(rot.node_templates, rot.scheduling_node_template) # {}
       /\ rot.node_configuration_id =
            FirstMatching(rot.node_templates,
                          rot.scheduling_node_template).configurationId
       /\ rot.node_configuration_id # None
  /\ (fn = "rotate_node" /\ NothingToProvision) =>
       /\ requests = <<>> /\ provisioned = {}
       /\ pollCount = 0 /\ w = WaitIdle
       /\ pc \in {"rot_loop", "done"}
       /\ pc = "done" => (ret.kind = "None" /\ rot.retry_count = RotateMaxRetries)

\* A rotation of a node whose instance-type label is the empty string, with
\* a matching template, has returned None after its three iterations.
EmptyInstanceTypeRotationReturned ==
  /\ RotateReturned /\ ret.kind = "None"
  /\ node.labels[InstanceTypeKey] = ""
  /\ rot.node_configuration_id # None
  /\ rot.retry_count = RotateMaxRetries
  /\ requests = <<>>

=============================================================================
